---------------------------- MODULE Spec2Model ----------------------------
(***************************************************************************)
(* npmenv: a project directory is mapped to an environment directory       *)
(* under NPMENV_DIR; package.json / package-lock.json are kept linked      *)
(* between the two; environments are listed, removed and cleaned up.       *)
(*                                                                         *)
(* The filesystem is a function from canonical absolute paths to nodes.    *)
(* A path is the tuple pathlib calls `parts`: <<"/", "d", "n">> is /d/n.   *)
(* A string is modelled by its split on "/": "/d/n" is <<"", "d", "n">>,   *)
(* "" is <<"">>, "a/../.." is <<"a", "..", "..">>.                         *)
(***************************************************************************)
EXTENDS Naturals, Sequences, FiniteSets, TLC

VARIABLES fs, cwd, pc, frame, last, environ

vars == <<fs, cwd, pc, frame, last, environ>>

---------------------------------------------------------------------------
(* Bounds of the model *)

\* number of project directories the callers work with
NumProj == 2

\* longest identifier string handed to env_rm, in "/"-separated segments
MaxIdLen == 3

\* longest PATH the process starts env_run with, in entries
MaxPathLen == 2

\* symbolic links followed while resolving one path (the kernel's limit)
MaxSymlinks == 4

---------------------------------------------------------------------------
(* pathlib: pure paths *)

IsAbs(p) == Len(p) > 0 /\ p[1] \in {"/", "//"}

RECURSIVE LeadEmpty(_)
LeadEmpty(s) == IF s = <<>> \/ Head(s) # "" THEN 0 ELSE 1 + LeadEmpty(Tail(s))

\* number of leading slashes of the string whose split on "/" is s
Slashes(s) == IF LeadEmpty(s) = Len(s) THEN Len(s) - 1 ELSE LeadEmpty(s)

IsPart(c) == c # "" /\ c # "."

\* Path(str): the root ("/", or "//" for exactly two slashes), then the
\* segments that are neither empty nor "."; ".." is kept
PathOf(s) ==
    LET root == IF Slashes(s) = 0 THEN <<>>
                ELSE IF Slashes(s) = 2 THEN <<"//">> ELSE <<"/">>
    IN  root \o SelectSeq(s, IsPart)

\* str(path)
StrOf(p) ==
    IF p = <<>> THEN <<".">>
    ELSE IF p[1] = "/" THEN (IF Len(p) = 1 THEN <<"", "">> ELSE <<"">> \o Tail(p))
    ELSE IF p[1] = "//" THEN <<"", "">> \o Tail(p)
    ELSE p

\* a / b
JoinPath(a, b) == IF IsAbs(b) THEN b ELSE a \o b

\* path.parent (lexical)
PathParent(p) ==
    IF Len(p) = 0 THEN p
    ELSE IF Len(p) = 1 /\ IsAbs(p) THEN p
    ELSE SubSeq(p, 1, Len(p) - 1)

\* path.name
PathName(p) ==
    IF Len(p) = 0 \/ (Len(p) = 1 /\ IsAbs(p)) THEN "" ELSE p[Len(p)]

IsUnder(q, c) == Len(q) > Len(c) /\ SubSeq(q, 1, Len(c)) = c

---------------------------------------------------------------------------
(* The filesystem *)

NoNode == [k |-> "none", v |-> <<>>]
DirNode == [k |-> "dir", v |-> <<>>]
FileNode(c) == [k |-> "file", v |-> c]
LinkNode(t) == [k |-> "link", v |-> t]

FsRoot == <<"/">>

\* what path resolution yields when a component is missing, is not a
\* directory, or the links loop
ENOENT == <<"/", "<enoent>">>

Node(f, c) == IF c \in DOMAIN f THEN f[c] ELSE NoNode
Kind(f, c) == Node(f, c).k

Put(f, c, n) == [q \in DOMAIN f \cup {c} |-> IF q = c THEN n ELSE f[q]]
Remove(f, c) == [q \in {r \in DOMAIN f : r # c /\ ~IsUnder(r, c)} |-> f[q]]
RemoveBelow(f, c) == [q \in {r \in DOMAIN f : ~IsUnder(r, c)} |-> f[q]]

\* the kernel's path walk: cur is the directory reached so far, rest the
\* components left; the last component is followed only if follow
RECURSIVE Walk(_, _, _, _, _)
Walk(f, cur, rest, follow, fuel) ==
    IF rest = <<>> THEN cur
    ELSE LET c == Head(rest)
             t == Tail(rest)
             child == Append(cur, c)
         IN  IF Kind(f, cur) # "dir" THEN ENOENT
             ELSE IF c = "." THEN Walk(f, cur, t, follow, fuel)
             ELSE IF c = ".." THEN Walk(f, PathParent(cur), t, follow, fuel)
             ELSE IF Kind(f, child) = "link" /\ (t # <<>> \/ follow)
                  THEN IF fuel = 0 THEN ENOENT
                       ELSE Walk(f, FsRoot, Tail(Node(f, child).v) \o t,
                                 follow, fuel - 1)
             ELSE IF Kind(f, child) = "none" /\ t # <<>> THEN ENOENT
             ELSE Walk(f, child, t, follow, fuel)

\* the canonical place an absolute path names (which may hold nothing)
Real(f, p, follow) == Walk(f, FsRoot, Tail(p), follow, MaxSymlinks)

Stat(f, p) == Node(f, Real(f, p, TRUE))
Lstat(f, p) == Node(f, Real(f, p, FALSE))

exists(f, p) == Stat(f, p).k # "none"
is_dir(f, p) == Stat(f, p).k = "dir"
is_file(f, p) == Stat(f, p).k = "file"
is_symlink(f, p) == Lstat(f, p).k = "link"

Ok(f) == [fs |-> f, exc |-> "None"]
Err(f, e) == [fs |-> f, exc |-> e]

RECURSIVE mkdir(_, _, _, _)
mkdir(f, p, parents, exist_ok) ==
    LET c == Real(f, p, FALSE) IN
    IF c # ENOENT /\ Kind(f, c) # "none"
    THEN IF exist_ok /\ is_dir(f, p) THEN Ok(f) ELSE Err(f, "FileExistsError")
    ELSE IF c # ENOENT THEN Ok(Put(f, c, DirNode))
    ELSE IF ~parents \/ PathParent(p) = p THEN Err(f, "FileNotFoundError")
    ELSE LET r == mkdir(f, PathParent(p), TRUE, TRUE) IN
         IF r.exc # "None" THEN r ELSE mkdir(r.fs, p, FALSE, FALSE)

write_text(f, p, content) ==
    LET c == Real(f, p, TRUE) IN
    IF c = ENOENT THEN Err(f, "FileNotFoundError")
    ELSE IF Kind(f, c) = "dir" THEN Err(f, "IsADirectoryError")
    ELSE Ok(Put(f, c, FileNode(content)))

\* [exc, text]
read_text(f, p) ==
    LET n == Stat(f, p) IN
    IF n.k = "file" THEN [exc |-> "None", text |-> n.v]
    ELSE IF n.k = "dir" THEN [exc |-> "IsADirectoryError", text |-> <<>>]
    ELSE [exc |-> "FileNotFoundError", text |-> <<>>]

symlink_to(f, link, target) ==
    LET c == Real(f, link, FALSE) IN
    IF c = ENOENT THEN Err(f, "FileNotFoundError")
    ELSE IF Kind(f, c) # "none" THEN Err(f, "FileExistsError")
    ELSE Ok(Put(f, c, LinkNode(target)))

unlink(f, p) ==
    LET c == Real(f, p, FALSE) IN
    IF c = ENOENT \/ Kind(f, c) = "none" THEN Err(f, "FileNotFoundError")
    ELSE IF Kind(f, c) = "dir" THEN Err(f, "IsADirectoryError")
    ELSE Ok(Remove(f, c))

\* os.rename: the source (not followed) replaces the target (not followed)
rename(f, src, dst) ==
    LET s == Real(f, src, FALSE)
        d == Real(f, dst, FALSE)
        moved == [q \in {r \in DOMAIN f : r # s /\ ~IsUnder(r, s)
                                         /\ r # d /\ ~IsUnder(r, d)}
                        \cup {d \o SubSeq(r, Len(s) + 1, Len(r)) :
                                 r \in {x \in DOMAIN f : x = s \/ IsUnder(x, s)}}
                  |-> IF q = d \/ IsUnder(q, d)
                      THEN f[s \o SubSeq(q, Len(d) + 1, Len(q))]
                      ELSE f[q]]
    IN
    IF s = ENOENT \/ Kind(f, s) = "none" \/ d = ENOENT
    THEN Err(f, "FileNotFoundError")
    ELSE IF s = d THEN Ok(f)
    ELSE IF Kind(f, s) = "dir"
    THEN IF Kind(f, d) \in {"file", "link"} THEN Err(f, "NotADirectoryError")
         ELSE IF IsUnder(d, s) THEN Err(f, "OSError")
         ELSE IF \E r \in DOMAIN f : IsUnder(r, d) THEN Err(f, "OSError")
         ELSE Ok(moved)
    ELSE IF Kind(f, d) = "dir" THEN Err(f, "IsADirectoryError")
    ELSE Ok(moved)

\* shutil.rmtree: refuses a symlink; empties the directory, then rmdir(p),
\* which the kernel refuses for a path ending in ".." and for "/"
rmtree(f, p) ==
    LET c == Real(f, p, TRUE) IN
    IF Lstat(f, p).k = "link" THEN Err(f, "OSError")
    ELSE IF Kind(f, c) = "none" THEN Err(f, "FileNotFoundError")
    ELSE IF Kind(f, c) # "dir" THEN Err(f, "NotADirectoryError")
    ELSE IF PathName(p) \in {"..", ""} THEN Err(RemoveBelow(f, c), "OSError")
    ELSE Ok(Remove(f, c))

\* the names in a directory
iterdir(f, p) ==
    LET c == Real(f, p, TRUE) IN
    {JoinPath(p, <<r[Len(r)]>>) : r \in {q \in DOMAIN f : PathParent(q) = c /\ q # c}}

---------------------------------------------------------------------------
(* The program: module level and private helpers *)

NPMENV_DIR == <<"/", "d", "n">>

TrackedNames == <<"package.json", "package-lock.json">>
Kinds == DOMAIN TrackedNames

\* the project directories of the model, /w/p1, /w/p2, ...
ProjNames == <<"p1", "p2", "p3", "p4">>
Proj(i) == <<"/", "w", ProjNames[i]>>
Projects == {Proj(i) : i \in 1..NumProj}

\* the 8 characters kept of the sha256 of the path string: one name per
\* project path of the model, no two alike
HashNames == <<"h1", "h2", "h3", "h4">>
hash_sample(s) ==
    IF \E i \in 1..Len(ProjNames) : StrOf(Proj(i)) = s
    THEN HashNames[CHOOSE i \in 1..Len(ProjNames) : StrOf(Proj(i)) = s]
    ELSE "h0"

NoneArg == [t |-> "none", v |-> <<>>]
StrArg(s) == [t |-> "str", v |-> s]
PathArg(p) == [t |-> "path", v |-> p]

\* os.path.realpath, not strict: what is missing is joined as written
RECURSIVE RealPath(_, _, _, _)
RealPath(f, cur, rest, fuel) ==
    IF rest = <<>> THEN cur
    ELSE LET c == Head(rest)
             t == Tail(rest)
             child == Append(cur, c)
         IN  IF c = "." THEN RealPath(f, cur, t, fuel)
             ELSE IF c = ".." THEN RealPath(f, PathParent(cur), t, fuel)
             ELSE IF Kind(f, child) = "link" /\ fuel > 0
                  THEN RealPath(f, FsRoot, Tail(Node(f, child).v) \o t, fuel - 1)
             ELSE RealPath(f, child, t, fuel)

get_env_id(proj_dir) ==
    PathName(PathParent(proj_dir)) \o "__" \o PathName(proj_dir)
        \o "__" \o hash_sample(StrOf(proj_dir))

get_env_dir(proj_dir) == JoinPath(NPMENV_DIR, <<get_env_id(proj_dir)>>)

\* Path.cwd(): os.getcwd() fails once the directory has been removed
getcwd_ok(f, c) == is_dir(f, c)

\* resolve_proj_dir making the path absolute and resolving nothing
resolve_proj_dir_lexical(f, c, given) ==
    LET g == IF given.t = "none" THEN c
             ELSE IF given.t = "str" THEN PathOf(given.v) ELSE given.v
    IN  IF ~IsAbs(g) /\ ~getcwd_ok(f, c)
        THEN [exc |-> "FileNotFoundError", path |-> <<>>]
        ELSE IF given.t = "none" /\ ~getcwd_ok(f, c)
        THEN [exc |-> "FileNotFoundError", path |-> <<>>]
        ELSE [exc |-> "None", path |-> JoinPath(c, g)]

\* [exc, path]
resolve_proj_dir(f, c, given) ==
    LET g == IF given.t = "none" THEN c
             ELSE IF given.t = "str" THEN PathOf(given.v) ELSE given.v
    IN  IF ~IsAbs(g) /\ ~getcwd_ok(f, c)
        THEN [exc |-> "FileNotFoundError", path |-> <<>>]
        ELSE IF given.t = "none" /\ ~getcwd_ok(f, c)
        THEN [exc |-> "FileNotFoundError", path |-> <<>>]
        ELSE [exc |-> "None",
              path |-> RealPath(f, FsRoot, Tail(JoinPath(c, g)), MaxSymlinks)]

---------------------------------------------------------------------------
(* env_rm, env_list, env_cleanup *)

RmResult(f, e, r) == [fs |-> f, exc |-> e, ret |-> r]

\* env_rm that reads the marker and leaves the directory where it is
env_rm_keep(f, c, identifier) ==
    LET proj == resolve_proj_dir(f, c, identifier)
        env_id == IF identifier.t = "str" THEN PathOf(identifier.v)
                  ELSE <<get_env_id(proj.path)>>
        env_dir == JoinPath(NPMENV_DIR, env_id)
        text == read_text(f, JoinPath(env_dir, <<".project">>))
    IN  IF identifier.t # "str" /\ proj.exc # "None"
        THEN RmResult(f, proj.exc, <<>>)
        ELSE IF ~exists(f, env_dir) THEN RmResult(f, "NpmenvException", <<>>)
        ELSE IF text.exc # "None" THEN RmResult(f, text.exc, <<>>)
        ELSE RmResult(f, "None", PathOf(text.text))

env_rm(f, c, identifier) ==
    LET proj == resolve_proj_dir(f, c, identifier)
        env_id == IF identifier.t = "str" THEN PathOf(identifier.v)
                  ELSE <<get_env_id(proj.path)>>
        env_dir == JoinPath(NPMENV_DIR, env_id)
        text == read_text(f, JoinPath(env_dir, <<".project">>))
        rm == rmtree(f, env_dir)
    IN  IF identifier.t # "str" /\ proj.exc # "None"
        THEN RmResult(f, proj.exc, <<>>)
        ELSE IF ~exists(f, env_dir) THEN RmResult(f, "NpmenvException", <<>>)
        ELSE IF ~IsAbs(env_dir) THEN RmResult(f, "AssertionError", <<>>)
        ELSE IF PathParent(env_dir) # NPMENV_DIR
             THEN RmResult(f, "AssertionError", <<>>)
        ELSE IF text.exc # "None" THEN RmResult(f, text.exc, <<>>)
        ELSE IF rm.exc # "None" THEN RmResult(rm.fs, rm.exc, <<>>)
        ELSE RmResult(rm.fs, "None", PathOf(text.text))

Entry(id, proj_dir, issue) == [id |-> id, proj |-> proj_dir, issue |-> issue]

\* issue_of asking for both files: "no_config" as soon as one is missing
issue_of_both(f, proj_dir) ==
    IF ~is_dir(f, proj_dir) THEN "missing"
    ELSE IF ~is_file(f, JoinPath(proj_dir, <<"package.json">>))
            \/ ~is_file(f, JoinPath(proj_dir, <<"package-lock.json">>))
         THEN "no_config"
    ELSE "None"

\* the issue env_list reports for a recorded project path
issue_of(f, proj_dir) ==
    IF ~is_dir(f, proj_dir) THEN "missing"
    ELSE IF ~is_file(f, JoinPath(proj_dir, <<"package.json">>))
            /\ ~is_file(f, JoinPath(proj_dir, <<"package-lock.json">>))
         THEN "no_config"
    ELSE "None"

\* env_list taking every item of NPMENV_DIR for an environment
env_list_unfiltered(f) ==
    IF ~is_dir(f, NPMENV_DIR)
    THEN [exc |-> "FileNotFoundError", list |-> {}]
    ELSE [exc |-> "None",
          list |-> {Entry(PathName(item),
                          PathOf(read_text(f, JoinPath(item, <<".project">>)).text),
                          issue_of(f, PathOf(read_text(f, JoinPath(item, <<".project">>)).text)))
                    : item \in iterdir(f, NPMENV_DIR)}]

\* [exc, list]: one entry per item of NPMENV_DIR holding a .project file
env_list(f) ==
    IF ~is_dir(f, NPMENV_DIR)
    THEN [exc |-> "FileNotFoundError", list |-> {}]
    ELSE [exc |-> "None",
          list |-> {Entry(PathName(item),
                          PathOf(read_text(f, JoinPath(item, <<".project">>)).text),
                          issue_of(f, PathOf(read_text(f, JoinPath(item, <<".project">>)).text)))
                    : item \in {i \in iterdir(f, NPMENV_DIR) :
                                  is_file(f, JoinPath(i, <<".project">>))}}]

\* the orders in which iterdir may yield a set of entries
Orders(S) ==
    {s \in [1..Cardinality(S) -> S] : \A e \in S : \E i \in DOMAIN s : s[i] = e}

\* has_issue taking only "missing" for an issue
has_issue_missing(issue) == issue = "missing"

\* `if issue:`
has_issue(issue) == issue # "None"

\* the loop of env_cleanup over the entries still to visit
RECURSIVE cleanup_loop(_, _, _, _)
cleanup_loop(f, c, todo, removed) ==
    IF todo = <<>> THEN [fs |-> f, exc |-> "None", removed |-> removed]
    ELSE IF ~has_issue(Head(todo).issue)
         THEN cleanup_loop(f, c, Tail(todo), removed)
    ELSE LET r == env_rm(f, c, StrArg(<<Head(todo).id>>)) IN
         IF r.exc # "None" THEN [fs |-> r.fs, exc |-> r.exc, removed |-> removed]
         ELSE cleanup_loop(r.fs, c, Tail(todo), Append(removed, Head(todo)))

env_cleanup(f, c, order) == cleanup_loop(f, c, order, <<>>)

\* [exc, path]
env_location(f, c, proj_dir) ==
    LET proj == resolve_proj_dir(f, c, proj_dir) IN
    IF proj.exc # "None" THEN proj
    ELSE [exc |-> "None", path |-> get_env_dir(proj.path)]

---------------------------------------------------------------------------
(* env_run. The process environment is a function from variable names to   *)
(* values; the value of PATH is its split on os.pathsep, each entry a       *)
(* string in the split form of the header.                                  *)

NoEnviron == [x \in {} |-> <<>>]

NoEnv == "NpmenvException: Env does not exist"
NoBin == "NpmenvException: Env does not have a .bin dir"

bin_dir_of(env_dir) == JoinPath(env_dir, <<"node_modules", ".bin">>)

\* [fs, exc, ran, child, environ]: the filesystem and os.environ afterwards,
\* whether the command was run, and the environment it was run with
RunResult(f, e, ran, child, env) ==
    [fs |-> f, exc |-> e, ran |-> ran, child |-> child, environ |-> env]

\* env_run testing for the .bin directory before the environment directory
env_run_bin_first(f, c, env, proj_dir) ==
    LET proj == resolve_proj_dir(f, c, proj_dir)
        env_dir == get_env_dir(proj.path)
        bin_dir == bin_dir_of(env_dir)
    IN  IF proj.exc # "None" THEN RunResult(f, proj.exc, FALSE, NoEnviron, env)
        ELSE IF ~is_dir(f, bin_dir) THEN RunResult(f, NoBin, FALSE, NoEnviron, env)
        ELSE IF ~is_dir(f, env_dir) THEN RunResult(f, NoEnv, FALSE, NoEnviron, env)
        ELSE IF "PATH" \notin DOMAIN env
             THEN RunResult(f, "KeyError", FALSE, NoEnviron, env)
        ELSE RunResult(f, "None", TRUE,
                       [env EXCEPT !["PATH"] = <<StrOf(bin_dir)>> \o @], env)

\* env_run making the environment directory where there is none
env_run_init(f, c, env, proj_dir) ==
    LET proj == resolve_proj_dir(f, c, proj_dir)
        env_dir == get_env_dir(proj.path)
        bin_dir == bin_dir_of(env_dir)
        made == mkdir(f, env_dir, TRUE, TRUE).fs
    IN  IF proj.exc # "None" THEN RunResult(f, proj.exc, FALSE, NoEnviron, env)
        ELSE IF ~is_dir(made, bin_dir)
             THEN RunResult(made, NoBin, FALSE, NoEnviron, env)
        ELSE IF "PATH" \notin DOMAIN env
             THEN RunResult(made, "KeyError", FALSE, NoEnviron, env)
        ELSE RunResult(made, "None", TRUE,
                       [env EXCEPT !["PATH"] = <<StrOf(bin_dir)>> \o @], env)

env_run(f, c, env, proj_dir) ==
    LET proj == resolve_proj_dir(f, c, proj_dir)
        env_dir == get_env_dir(proj.path)
        bin_dir == bin_dir_of(env_dir)
    IN  IF proj.exc # "None" THEN RunResult(f, proj.exc, FALSE, NoEnviron, env)
        ELSE IF ~is_dir(f, env_dir) THEN RunResult(f, NoEnv, FALSE, NoEnviron, env)
        ELSE IF ~is_dir(f, bin_dir) THEN RunResult(f, NoBin, FALSE, NoEnviron, env)
        ELSE IF "PATH" \notin DOMAIN env
             THEN RunResult(f, "KeyError", FALSE, NoEnviron, env)
        ELSE RunResult(f, "None", TRUE,
                       [env EXCEPT !["PATH"] = <<StrOf(bin_dir)>> \o @], env)

---------------------------------------------------------------------------
(* env_npm *)

proj_file(proj_dir, k) == JoinPath(proj_dir, <<TrackedNames[k]>>)
env_file(env_dir, k) == JoinPath(env_dir, <<TrackedNames[k]>>)

\* init_env that makes the directory and writes no marker
init_env_no_marker(f, proj_dir, env_dir) ==
    IF exists(f, env_dir) THEN Ok(f) ELSE mkdir(f, env_dir, TRUE, FALSE)

\* "Init env dir if doesn't exist"
init_env(f, proj_dir, env_dir) ==
    IF exists(f, env_dir) THEN Ok(f)
    ELSE LET m == mkdir(f, env_dir, TRUE, FALSE) IN
         IF m.exc # "None" THEN m
         ELSE write_text(m.fs, JoinPath(env_dir, <<".project">>), StrOf(proj_dir))

\* link_one that clears an occupied environment path and links it
link_one_force(f, pf, ef) ==
    IF exists(f, pf)
    THEN IF Lstat(f, ef).k \in {"file", "link"}
         THEN symlink_to(unlink(f, ef).fs, ef, pf)
         ELSE symlink_to(f, ef, pf)
    ELSE IF is_symlink(f, ef) THEN unlink(f, ef) ELSE Ok(f)

\* one turn of the loop before npm runs
link_one(f, pf, ef) ==
    IF exists(f, pf)
    THEN IF ~is_symlink(f, ef) THEN symlink_to(f, ef, pf) ELSE Ok(f)
    ELSE IF is_symlink(f, ef) THEN unlink(f, ef) ELSE Ok(f)

pre_phase(f, proj_dir, env_dir) ==
    LET r == link_one(f, proj_file(proj_dir, 1), env_file(env_dir, 1)) IN
    IF r.exc # "None" THEN r
    ELSE link_one(r.fs, proj_file(proj_dir, 2), env_file(env_dir, 2))

\* promote_one without the symlink back to the project
promote_one_no_link(f, pf, ef) ==
    IF ~exists(f, pf) /\ exists(f, ef) THEN rename(f, ef, pf) ELSE Ok(f)

\* promote_one without the test that the project has no copy
promote_one_always(f, pf, ef) ==
    IF exists(f, ef)
    THEN LET r == rename(f, ef, pf) IN
         IF r.exc # "None" THEN r ELSE symlink_to(r.fs, ef, pf)
    ELSE Ok(f)

\* one turn of the loop after npm has run
promote_one(f, pf, ef) ==
    IF ~exists(f, pf) /\ exists(f, ef)
    THEN LET r == rename(f, ef, pf) IN
         IF r.exc # "None" THEN r ELSE symlink_to(r.fs, ef, pf)
    ELSE Ok(f)

\* the codes the command run by _shell exits with
ReturnCodes == {0, 1, 2}

\* _shell run with check=True: a nonzero exit code is raised
shell_exc_check(rc) == IF rc # 0 THEN "CalledProcessError" ELSE "None"

\* what _shell raises for an exit code: subprocess.run without check
shell_exc(rc) == "None"

post_phase(f, proj_dir, env_dir) ==
    LET r == promote_one(f, proj_file(proj_dir, 1), env_file(env_dir, 1)) IN
    IF r.exc # "None" THEN r
    ELSE promote_one(r.fs, proj_file(proj_dir, 2), env_file(env_dir, 2))

---------------------------------------------------------------------------
(* State: fs, the process's cwd, where the caller is (pc), the locals of    *)
(* the env_npm whose npm is running (frame), the record of the step just    *)
(* taken (last), which holds the filesystem it started from, and the        *)
(* process's environment variables (environ).                               *)

\* the process has not exited (an exit status is in 0..255)
NoExit == 256

NoFs == [q \in {} |-> NoNode]

NoFrame == [arg |-> NoneArg, proj_dir |-> <<>>, env_dir |-> <<>>, old_cwd |-> <<>>]

NilLast ==
    [op |-> "none", arg |-> NoneArg, exc |-> "None", ret |-> <<>>,
     removed |-> <<>>, list |-> {}, rc |-> 0, proj_dir |-> <<>>,
     pre |-> NoFs, pre_cwd |-> <<>>,
     ran |-> FALSE, child |-> NoEnviron, pre_environ |-> NoEnviron,
     exit |-> NoExit]

\* the entries a PATH is made of: /usr/bin, /bin and the empty entry
PathEntries == {<<"", "usr", "bin">>, <<"", "bin">>, <<"">>}
PathValues == UNION {[1..n -> PathEntries] : n \in 1..MaxPathLen}

InitEnviron ==
    [x \in {"HOME", "PATH"} |->
        IF x = "HOME" THEN <<"", "root">> ELSE <<<<"", "usr", "bin">>, <<"", "bin">>>>]

Shared == <<"/", "w", "shared.json">>
Gone == <<"/", "w", "gone.json">>
Above == PathParent(NPMENV_DIR)

\* /d and /w exist, NPMENV_DIR does not yet; /d holds another program's data
InitFs ==
    [q \in {FsRoot, Above, Above \o <<"x">>, Above \o <<"x", "f">>, <<"/", "w">>, Shared}
           \cup Projects
     |-> IF q \in {Above \o <<"x", "f">>, Shared} THEN FileNode(<<"S">>) ELSE DirNode]

Init ==
    /\ fs = InitFs
    /\ cwd = Proj(1)
    /\ pc = "idle"
    /\ frame = NoFrame
    /\ last = NilLast
    /\ environ = InitEnviron

---------------------------------------------------------------------------
(* What the user does to the project directories *)

UserWrite(pcs, P, K) ==
    /\ pc \in pcs
    /\ \E p \in P, k \in K :
         /\ is_dir(fs, p)
         /\ Lstat(fs, proj_file(p, k)).k = "none"
         /\ fs' = write_text(fs, proj_file(p, k), <<"P">>).fs
    /\ last' = NilLast
    /\ UNCHANGED <<cwd, pc, frame>>
    /\ UNCHANGED environ

\* what a tracked path of project p may be made a symlink to: a file
\* elsewhere, a path where nothing is, the project's path of the other kind,
\* a tracked path of the project's environment
LinkTargets(p, k) ==
    {Shared, Gone}
        \cup {proj_file(p, j) : j \in DOMAIN TrackedNames \ {k}}
        \cup {env_file(get_env_dir(p), j) : j \in DOMAIN TrackedNames}

UserSymlink(pcs, P) ==
    /\ pc \in pcs
    /\ \E p \in P, k \in DOMAIN TrackedNames :
       \E t \in LinkTargets(p, k) :
         /\ is_dir(fs, p)
         /\ Lstat(fs, proj_file(p, k)).k = "none"
         /\ fs' = symlink_to(fs, proj_file(p, k), t).fs
    /\ last' = NilLast
    /\ UNCHANGED <<cwd, pc, frame>>
    /\ UNCHANGED environ

UserDelete(pcs, P) ==
    /\ pc \in pcs
    /\ \E p \in P, k \in DOMAIN TrackedNames :
         /\ Lstat(fs, proj_file(p, k)).k \in {"file", "link"}
         /\ fs' = unlink(fs, proj_file(p, k)).fs
    /\ last' = NilLast
    /\ UNCHANGED <<cwd, pc, frame>>
    /\ UNCHANGED environ

UserRmdir(pcs, P) ==
    /\ pc \in pcs
    /\ \E p \in P :
         /\ is_dir(fs, p)
         /\ fs' = rmtree(fs, p).fs
    /\ last' = NilLast
    /\ UNCHANGED <<cwd, pc, frame>>
    /\ UNCHANGED environ

UserMkdir(pcs, P) ==
    /\ pc \in pcs
    /\ \E p \in P :
         /\ ~exists(fs, p)
         /\ fs' = mkdir(fs, p, FALSE, FALSE).fs
    /\ last' = NilLast
    /\ UNCHANGED <<cwd, pc, frame>>
    /\ UNCHANGED environ

UserChdir(P) ==
    /\ pc = "idle"
    /\ getcwd_ok(fs, cwd)
    /\ \E p \in P :
         /\ is_dir(fs, p)
         /\ p # cwd
         /\ cwd' = p
    /\ last' = NilLast
    /\ UNCHANGED <<fs, pc, frame>>
    /\ UNCHANGED environ

\* a file named .project appears beside NPMENV_DIR
UserMarkAbove ==
    /\ pc = "idle"
    /\ is_dir(fs, Above)
    /\ ~exists(fs, JoinPath(Above, <<".project">>))
    /\ fs' = write_text(fs, JoinPath(Above, <<".project">>), <<"S">>).fs
    /\ last' = NilLast
    /\ UNCHANGED <<cwd, pc, frame>>
    /\ UNCHANGED environ

\* the process is started with another PATH, or with none
UserSetPath ==
    /\ pc = "idle"
    /\ \E v \in PathValues :
         /\ ("PATH" \in DOMAIN environ) => environ["PATH"] # v
         /\ environ' = [x \in DOMAIN environ \cup {"PATH"} |->
                           IF x = "PATH" THEN v ELSE environ[x]]
    /\ last' = NilLast
    /\ UNCHANGED <<fs, cwd, pc, frame>>

UserUnsetPath ==
    /\ pc = "idle"
    /\ "PATH" \in DOMAIN environ
    /\ environ' = [x \in DOMAIN environ \ {"PATH"} |-> environ[x]]
    /\ last' = NilLast
    /\ UNCHANGED <<fs, cwd, pc, frame>>

\* what else may lie in NPMENV_DIR: a plain file, a directory without
\* marker, a directory in which .project is itself a directory
Strays ==
    {[at |-> <<"stray.txt">>, node |-> FileNode(<<"S">>)],
     [at |-> <<"cache">>, node |-> DirNode],
     [at |-> <<"odd", ".project">>, node |-> DirNode]}

UserStray ==
    /\ pc = "idle"
    /\ is_dir(fs, NPMENV_DIR)
    /\ \E x \in Strays :
         /\ ~exists(fs, JoinPath(NPMENV_DIR, x.at))
         /\ fs' = IF x.node = DirNode
                  THEN mkdir(fs, JoinPath(NPMENV_DIR, x.at), TRUE, FALSE).fs
                  ELSE write_text(fs, JoinPath(NPMENV_DIR, x.at), x.node.v).fs
    /\ last' = NilLast
    /\ UNCHANGED <<cwd, pc, frame, environ>>

\* the first project directory is given a second name, a symlink beside it
ProjLink == <<"/", "w", "lp">>

UserLinkProj ==
    /\ pc = "idle"
    /\ is_dir(fs, Proj(1))
    /\ Lstat(fs, ProjLink).k = "none"
    /\ fs' = symlink_to(fs, ProjLink, Proj(1)).fs
    /\ last' = NilLast
    /\ UNCHANGED <<cwd, pc, frame, environ>>

\* an environment directory is given a second name in NPMENV_DIR, a symlink
UserLinkEnv(P) ==
    /\ pc = "idle"
    /\ \E p \in P :
         /\ is_dir(fs, get_env_dir(p))
         /\ ~is_symlink(fs, get_env_dir(p))
         /\ Lstat(fs, JoinPath(NPMENV_DIR, <<"alias">>)).k = "none"
         /\ fs' = symlink_to(fs, JoinPath(NPMENV_DIR, <<"alias">>), get_env_dir(p)).fs
    /\ last' = NilLast
    /\ UNCHANGED <<cwd, pc, frame>>
    /\ UNCHANGED environ

---------------------------------------------------------------------------
(* What npm does in the environment directory while it runs *)

\* npm writes a tracked file anew (a temporary file renamed into place)
NpmWrite ==
    /\ pc = "npm"
    /\ \E k \in DOMAIN TrackedNames :
         LET ef == Real(fs, env_file(frame.env_dir, k), FALSE) IN
         /\ ef # ENOENT
         /\ Kind(fs, ef) # "dir"
         /\ Node(fs, ef) # FileNode(<<"N">>)
         /\ fs' = Put(fs, ef, FileNode(<<"N">>))
    /\ last' = NilLast
    /\ UNCHANGED <<cwd, pc, frame>>
    /\ UNCHANGED environ

NpmDelete ==
    /\ pc = "npm"
    /\ \E k \in DOMAIN TrackedNames :
         /\ Lstat(fs, env_file(frame.env_dir, k)).k \in {"file", "link"}
         /\ fs' = unlink(fs, env_file(frame.env_dir, k)).fs
    /\ last' = NilLast
    /\ UNCHANGED <<cwd, pc, frame>>
    /\ UNCHANGED environ

\* the delegated command makes a directory at a tracked path
NpmMkdir ==
    /\ pc = "npm"
    /\ \E k \in DOMAIN TrackedNames :
         /\ Lstat(fs, env_file(frame.env_dir, k)).k = "none"
         /\ fs' = mkdir(fs, env_file(frame.env_dir, k), FALSE, FALSE).fs
    /\ last' = NilLast
    /\ UNCHANGED <<cwd, pc, frame, environ>>

\* npm installs a package with an executable
NpmInstall ==
    /\ pc = "npm"
    /\ ~exists(fs, bin_dir_of(frame.env_dir))
    /\ fs' = mkdir(fs, bin_dir_of(frame.env_dir), TRUE, FALSE).fs
    /\ last' = NilLast
    /\ UNCHANGED <<cwd, pc, frame, environ>>

---------------------------------------------------------------------------
(* The public operations *)

ProjArgs(P) == {NoneArg} \cup {PathArg(p) : p \in P}

\* env_npm up to the start of npm: resolve, init the env dir, link, cd;
\* it is at pc = "npm" afterwards unless it raised
EnvNpmStart(Args) ==
    /\ pc = "idle"
    /\ \E a \in Args :
         LET proj == resolve_proj_dir(fs, cwd, a)
             proj_dir == proj.path
             env_dir == get_env_dir(proj_dir)
             r0 == IF proj.exc = "None" THEN init_env(fs, proj_dir, env_dir)
                   ELSE Err(fs, proj.exc)
             r1 == IF r0.exc = "None" THEN pre_phase(r0.fs, proj_dir, env_dir) ELSE r0
             exc == IF r1.exc # "None" THEN r1.exc
                    ELSE IF ~getcwd_ok(r1.fs, cwd) THEN "FileNotFoundError"
                    ELSE IF ~is_dir(r1.fs, env_dir) THEN "NotADirectoryError"
                    ELSE "None"
         IN  /\ fs' = r1.fs
             /\ IF exc = "None"
                THEN /\ pc' = "npm"
                     /\ cwd' = Real(r1.fs, env_dir, TRUE)
                     /\ frame' = [arg |-> a, proj_dir |-> proj_dir,
                                  env_dir |-> env_dir, old_cwd |-> cwd]
                ELSE /\ pc' = "done"
                     /\ UNCHANGED <<cwd, frame>>
             /\ last' = [NilLast EXCEPT !.op = "env_npm_start", !.arg = a,
                                        !.exc = exc, !.proj_dir = proj_dir,
                                        !.pre = fs, !.pre_cwd = cwd]
    /\ UNCHANGED environ

\* env_npm is interrupted where it inits the env dir, after mkdir and before
\* the marker is written
EnvNpmInitInterrupt(Args) ==
    /\ pc = "idle"
    /\ \E a \in Args :
         LET proj == resolve_proj_dir(fs, cwd, a)
             env_dir == get_env_dir(proj.path)
             m == mkdir(fs, env_dir, TRUE, FALSE)
         IN  /\ proj.exc = "None"
             /\ ~exists(fs, env_dir)
             /\ m.exc = "None"
             /\ fs' = m.fs
             /\ last' = [NilLast EXCEPT !.op = "env_npm_start", !.arg = a,
                                        !.exc = "KeyboardInterrupt",
                                        !.proj_dir = proj.path,
                                        !.pre = fs, !.pre_cwd = cwd]
    /\ pc' = "done"
    /\ UNCHANGED <<cwd, frame, environ>>

\* npm exits with rc; env_npm goes back to the old cwd, promotes, returns
EnvNpmFinish ==
    /\ pc = "npm"
    /\ \E rc \in ReturnCodes :
         LET back == is_dir(fs, frame.old_cwd)
             r == IF ~back THEN Err(fs, "FileNotFoundError")
                  ELSE IF shell_exc(rc) # "None" THEN Err(fs, shell_exc(rc))
                  ELSE post_phase(fs, frame.proj_dir, frame.env_dir)
         IN  /\ fs' = r.fs
             /\ cwd' = IF back THEN frame.old_cwd ELSE cwd
             /\ last' = [NilLast EXCEPT !.op = "env_npm", !.arg = frame.arg,
                                        !.exc = r.exc, !.rc = rc,
                                        !.proj_dir = frame.proj_dir,
                                        !.pre = fs, !.pre_cwd = frame.old_cwd]
    /\ pc' = "done"
    /\ frame' = NoFrame
    /\ UNCHANGED environ

\* the call of npm is interrupted: the exception passes through _cd, whose
\* finally goes back to the old cwd, and leaves env_npm
EnvNpmInterrupt ==
    /\ pc = "npm"
    /\ LET back == is_dir(fs, frame.old_cwd) IN
       /\ cwd' = IF back THEN frame.old_cwd ELSE cwd
       /\ last' = [NilLast EXCEPT !.op = "env_npm", !.arg = frame.arg,
                                  !.exc = IF back THEN "KeyboardInterrupt"
                                          ELSE "FileNotFoundError",
                                  !.proj_dir = frame.proj_dir,
                                  !.pre = fs, !.pre_cwd = frame.old_cwd]
    /\ pc' = "done"
    /\ frame' = NoFrame
    /\ UNCHANGED fs
    /\ UNCHANGED environ

EnvRm(Args) ==
    /\ pc = "idle"
    /\ \E a \in Args :
         LET r == env_rm(fs, cwd, a) IN
         /\ fs' = r.fs
         /\ last' = [NilLast EXCEPT !.op = "env_rm", !.arg = a, !.exc = r.exc,
                                    !.ret = r.ret, !.pre = fs, !.pre_cwd = cwd]
    /\ pc' = "done"
    /\ UNCHANGED <<cwd, frame>>
    /\ UNCHANGED environ

EnvList ==
    /\ pc = "idle"
    /\ last' = [NilLast EXCEPT !.op = "env_list", !.exc = env_list(fs).exc,
                               !.list = env_list(fs).list,
                               !.pre = fs, !.pre_cwd = cwd]
    /\ pc' = "done"
    /\ UNCHANGED <<fs, cwd, frame>>
    /\ UNCHANGED environ

EnvCleanup ==
    /\ pc = "idle"
    /\ LET l == env_list(fs) IN
       IF l.exc # "None"
       THEN /\ fs' = fs
            /\ last' = [NilLast EXCEPT !.op = "env_cleanup", !.exc = l.exc,
                                       !.pre = fs, !.pre_cwd = cwd]
       ELSE \E order \in Orders(l.list) :
              LET r == env_cleanup(fs, cwd, order) IN
              /\ fs' = r.fs
              /\ last' = [NilLast EXCEPT !.op = "env_cleanup", !.exc = r.exc,
                                         !.removed = r.removed,
                                         !.pre = fs, !.pre_cwd = cwd]
    /\ pc' = "done"
    /\ UNCHANGED <<cwd, frame>>
    /\ UNCHANGED environ

EnvLocation(Args) ==
    /\ pc = "idle"
    /\ \E a \in Args :
         last' = [NilLast EXCEPT !.op = "env_location", !.arg = a,
                                 !.exc = env_location(fs, cwd, a).exc,
                                 !.ret = env_location(fs, cwd, a).path,
                                 !.pre = fs, !.pre_cwd = cwd]
    /\ pc' = "done"
    /\ UNCHANGED <<fs, cwd, frame>>
    /\ UNCHANGED environ

\* env_run; the command it runs exits with rc and leaves the disk alone
EnvRun(Args) ==
    /\ pc = "idle"
    /\ \E a \in Args, rc \in ReturnCodes :
         LET r == env_run(fs, cwd, environ, a) IN
         /\ fs' = r.fs
         /\ environ' = r.environ
         /\ last' = [NilLast EXCEPT !.op = "env_run", !.arg = a, !.exc = r.exc,
                                    !.ran = r.ran, !.child = r.child,
                                    !.rc = IF r.ran THEN rc ELSE 0,
                                    !.pre = fs, !.pre_cwd = cwd,
                                    !.pre_environ = environ]
    /\ pc' = "done"
    /\ UNCHANGED <<cwd, frame>>

\* the caller takes the result
Return ==
    /\ pc = "done"
    /\ pc' = "idle"
    /\ last' = NilLast
    /\ UNCHANGED <<fs, cwd, frame>>
    /\ UNCHANGED environ

\* the exceptions of class NpmenvException
NpmenvExceptions == {"NpmenvException", NoEnv, NoBin}

\* _cli that exits with 1 after an NpmenvException and with 0 otherwise
cli_exit_flat(op, exc, rc) == IF exc \in NpmenvExceptions THEN 1 ELSE 0

\* the status the process exits with when _cli had called the operation:
\* sys.exit(result.returncode) after env_run and env_npm, sys.exit(exc) for
\* an NpmenvException (the message is printed, the status is 1), the end of
\* _cli otherwise; any other exception is not caught and ends the process
\* with a traceback and status 1, a KeyboardInterrupt with status 130
cli_exit(op, exc, rc) ==
    IF exc = "None"
    THEN IF op \in {"env_run", "env_npm"} THEN rc % 256 ELSE 0
    ELSE IF exc \in NpmenvExceptions THEN 1
    ELSE IF exc = "KeyboardInterrupt" THEN 130
    ELSE 1

\* the caller was _cli, which calls env_rm with a str or nothing and the
\* other operations on the current directory: the process exits
CliExit ==
    /\ pc = "done"
    /\ last.arg.t = "none" \/ (last.op = "env_rm" /\ last.arg.t = "str")
    /\ pc' = "exited"
    /\ last' = [last EXCEPT !.exit = cli_exit(last.op, last.exc, last.rc)]
    /\ UNCHANGED <<fs, cwd, frame, environ>>

---------------------------------------------------------------------------
(* Spec: every public operation on NumProj projects, npm leaving the        *)
(* tracked files alone (as `npm` without arguments does). The project of    *)
(* the current directory gets either tracked file, the others a             *)
(* package.json or none.                                                    *)

Others == Projects \ {Proj(1)}

PlainRmArgs == ProjArgs(Projects) \cup {StrArg(<<get_env_id(p)>>) : p \in Projects}

Next ==
    \/ UserWrite({"idle"}, {Proj(1)}, Kinds)
    \/ UserWrite({"idle"}, Others, {1})
    \/ UserDelete({"idle"}, Projects)
    \/ UserRmdir({"idle"}, Projects)
    \/ UserMkdir({"idle"}, Projects)
    \/ EnvNpmStart(ProjArgs(Projects))
    \/ EnvNpmFinish
    \/ EnvNpmInterrupt
    \/ EnvRm(PlainRmArgs)
    \/ EnvList
    \/ EnvCleanup
    \/ EnvLocation(ProjArgs(Projects))
    \/ Return

Spec == Init /\ [][Next]_vars

---------------------------------------------------------------------------
(* SpecSync: env_npm on one project whose tracked files come and go, are    *)
(* files or symlinks, while npm writes and deletes the environment's copies *)

P1 == {Proj(1)}
Home == <<"/", "w">>

NextSync ==
    \/ UserWrite({"idle", "npm"}, P1, Kinds)
    \/ UserSymlink({"idle", "npm"}, P1)
    \/ UserDelete({"idle", "npm"}, P1)
    \/ UserRmdir({"idle", "npm"}, P1)
    \/ UserMkdir({"idle", "npm"}, P1)
    \/ UserChdir(P1 \cup {Home})
    \/ EnvNpmStart({PathArg(Proj(1))})
    \/ NpmWrite
    \/ NpmDelete
    \/ EnvNpmFinish
    \/ EnvNpmInterrupt
    \/ Return

SpecSync == Init /\ [][NextSync]_vars

---------------------------------------------------------------------------
(* SpecRm: env_rm handed arbitrary identifier strings                       *)

IdSegs == {"", ".", "..", "d", "n", get_env_id(Proj(1))}

IdStrings == UNION {[1..n -> IdSegs] : n \in 1..MaxIdLen}

CraftedRmArgs == ProjArgs(P1) \cup {StrArg(s) : s \in IdStrings}

NextRm ==
    \/ UserMarkAbove
    \/ UserRmdir({"idle"}, P1)
    \/ EnvNpmStart({NoneArg})
    \/ EnvNpmFinish
    \/ EnvRm(CraftedRmArgs)
    \/ Return

SpecRm == Init /\ [][NextRm]_vars

---------------------------------------------------------------------------
(* SpecSweep: env_list and env_cleanup over a NPMENV_DIR that holds, beside *)
(* the environments, a second name of one of them and unrelated items       *)

NextSweep ==
    \/ UserRmdir({"idle"}, Projects)
    \/ UserLinkEnv(Projects)
    \/ UserStray
    \/ EnvNpmStart({PathArg(p) : p \in Projects})
    \/ EnvNpmFinish
    \/ EnvList
    \/ EnvCleanup
    \/ Return

SpecSweep == Init /\ [][NextSweep]_vars

---------------------------------------------------------------------------
(* SpecRun: env_run, env_list and env_location on one project whose         *)
(* environment comes and goes, with and without executables, under any PATH *)

NextRun ==
    \/ UserSetPath
    \/ UserUnsetPath
    \/ EnvNpmStart({NoneArg})
    \/ NpmInstall
    \/ EnvNpmFinish
    \/ EnvRm({NoneArg})
    \/ EnvRun(ProjArgs(P1))
    \/ EnvList
    \/ EnvLocation(ProjArgs(P1))
    \/ Return

SpecRun == Init /\ [][NextRun]_vars

---------------------------------------------------------------------------
(* SpecSpell: the operations that take a project path, handed the spellings *)
(* of a directory: nothing, absolute, relative, with "..", by a symlink,    *)
(* as a Path or (but for env_rm, where a str is an identifier) as a str     *)

PathSpellings ==
    {Proj(1), <<".">>, <<"p1">>, <<"..", "p1">>, ProjLink, ProjLink \o <<"..", "p1">>}

StrSpellings == {<<"", "w", "p1">>, <<".", "">>, <<"p1", ".", "">>}

PathTyped == {NoneArg} \cup {PathArg(p) : p \in PathSpellings}

Spellings == PathTyped \cup {StrArg(x) : x \in StrSpellings}

NextSpell ==
    \/ UserChdir(P1 \cup {Home})
    \/ UserLinkProj
    \/ EnvNpmStart(Spellings)
    \/ NpmInstall
    \/ EnvNpmFinish
    \/ EnvRm(PathTyped)
    \/ EnvLocation(Spellings)
    \/ EnvRun(Spellings)
    \/ Return

SpecSpell == Init /\ [][NextSpell]_vars

---------------------------------------------------------------------------
(* SpecTurns: env_npm called again and again on one project; between the    *)
(* calls the user writes or deletes the project's tracked files, during a   *)
(* call npm writes or deletes the environment's                              *)

NextTurns ==
    \/ UserWrite({"idle"}, P1, Kinds)
    \/ UserDelete({"idle"}, P1)
    \/ EnvNpmStart({PathArg(Proj(1))})
    \/ NpmWrite
    \/ NpmDelete
    \/ EnvNpmFinish
    \/ Return

SpecTurns == Init /\ [][NextTurns]_vars

---------------------------------------------------------------------------
(* SpecPromote: as SpecTurns, and the delegated command may leave a         *)
(* directory at a tracked path of the environment                           *)

NextPromote ==
    \/ UserWrite({"idle"}, P1, Kinds)
    \/ UserDelete({"idle"}, P1)
    \/ EnvNpmStart({PathArg(Proj(1))})
    \/ NpmWrite
    \/ NpmMkdir
    \/ NpmDelete
    \/ EnvNpmFinish
    \/ Return

SpecPromote == Init /\ [][NextPromote]_vars

---------------------------------------------------------------------------
(* SpecCli: the operations as _cli calls them and as a library caller does  *)

CliRmArgs ==
    {NoneArg, StrArg(<<get_env_id(Proj(1))>>), StrArg(<<"", "tmp", "fake">>)}

NextCli ==
    \/ UserWrite({"idle"}, P1, {1})
    \/ EnvNpmStart({NoneArg})
    \/ NpmInstall
    \/ EnvNpmFinish
    \/ EnvNpmInterrupt
    \/ EnvRm(CliRmArgs)
    \/ EnvList
    \/ EnvCleanup
    \/ EnvLocation({NoneArg})
    \/ EnvRun({NoneArg})
    \/ Return
    \/ CliExit

SpecCli == Init /\ [][NextCli]_vars

---------------------------------------------------------------------------
(* SpecMarker: env_npm on NumProj projects, now and then interrupted while  *)
(* it inits the env dir                                                     *)

NextMarker ==
    \/ UserWrite({"idle"}, Projects, {1})
    \/ EnvNpmStart(ProjArgs(Projects))
    \/ EnvNpmInitInterrupt(ProjArgs(Projects))
    \/ EnvNpmFinish
    \/ EnvRm(ProjArgs(Projects))
    \/ Return

SpecMarker == Init /\ [][NextMarker]_vars

---------------------------------------------------------------------------
(* SpecRace: two invocations of env_npm on the first project, each a        *)
(* process of its own, taking the steps of env_npm one system call at a     *)
(* time in any interleaving. frame holds, for each invocation, the place    *)
(* it is at, the tracked kind its loop is at and what it raised.            *)

Procs == {1, 2}

RaceEnv == get_env_dir(Proj(1))

At(i, place) == pc = "race" /\ frame[i].at = place

Goto(i, place, k) ==
    frame' = [frame EXCEPT ![i] = [at |-> place, k |-> k, exc |-> "None"]]

Raise(i, e) ==
    frame' = [frame EXCEPT ![i] = [at |-> "raised", k |-> @.k, exc |-> e]]

\* the next turn of the loop before npm, or npm
PreNext(i) ==
    IF frame[i].k = 1 THEN Goto(i, "pre_pf", 2) ELSE Goto(i, "npm", 1)

\* the next turn of the loop after npm, or the return
PostNext(i) ==
    IF frame[i].k = 1 THEN Goto(i, "post_pf", 2) ELSE Goto(i, "returned", 2)

\* what an earlier env_npm left when the project had a package.json that
\* has been deleted since
StaleFs ==
    symlink_to(init_env(InitFs, Proj(1), RaceEnv).fs,
               env_file(RaceEnv, 1), proj_file(Proj(1), 1)).fs

\* the project has no tracked file, or a package.json, or had one
InitRace ==
    /\ fs \in {InitFs, write_text(InitFs, proj_file(Proj(1), 1), <<"P">>).fs, StaleFs}
    /\ cwd = Proj(1)
    /\ pc = "race"
    /\ frame = [i \in Procs |-> [at |-> "init", k |-> 1, exc |-> "None"]]
    /\ last = NilLast
    /\ environ = InitEnviron

\* `if not env_dir.exists()`
RaceInitTest ==
    \E i \in Procs :
        /\ At(i, "init")
        /\ IF ~exists(fs, RaceEnv) THEN Goto(i, "mkdir", 1) ELSE Goto(i, "pre_pf", 1)
        /\ last' = NilLast
        /\ UNCHANGED <<fs, cwd, pc, environ>>

\* `env_dir.mkdir(parents=True)`
RaceMkdir ==
    \E i \in Procs :
        LET r == mkdir(fs, RaceEnv, TRUE, FALSE) IN
        /\ At(i, "mkdir")
        /\ fs' = r.fs
        /\ IF r.exc # "None" THEN Raise(i, r.exc) ELSE Goto(i, "write", 1)
        /\ last' = NilLast
        /\ UNCHANGED <<cwd, pc, environ>>

\* `env_pathfile.write_text(str(proj_dir))`
RaceWriteMarker ==
    \E i \in Procs :
        LET r == write_text(fs, JoinPath(RaceEnv, <<".project">>), StrOf(Proj(1))) IN
        /\ At(i, "write")
        /\ fs' = r.fs
        /\ IF r.exc # "None" THEN Raise(i, r.exc) ELSE Goto(i, "pre_pf", 1)
        /\ last' = NilLast
        /\ UNCHANGED <<cwd, pc, environ>>

\* `if pf.exists()` of the loop before npm
RacePreTestProj ==
    \E i \in Procs :
        /\ At(i, "pre_pf")
        /\ IF exists(fs, proj_file(Proj(1), frame[i].k))
           THEN Goto(i, "pre_ef_link", frame[i].k)
           ELSE Goto(i, "pre_ef_unlink", frame[i].k)
        /\ last' = NilLast
        /\ UNCHANGED <<fs, cwd, pc, environ>>

\* `if not ef.is_symlink()`, and in the else branch `if ef.is_symlink()`
RacePreTestEnv ==
    \E i \in Procs :
        LET link == is_symlink(fs, env_file(RaceEnv, frame[i].k)) IN
        /\ \/ At(i, "pre_ef_link") /\ IF ~link THEN Goto(i, "pre_symlink", frame[i].k)
                                                 ELSE PreNext(i)
           \/ At(i, "pre_ef_unlink") /\ IF link THEN Goto(i, "pre_unlink", frame[i].k)
                                                 ELSE PreNext(i)
        /\ last' = NilLast
        /\ UNCHANGED <<fs, cwd, pc, environ>>

\* `ef.symlink_to(pf)` of the loop before npm
RacePreSymlink ==
    \E i \in Procs :
        LET r == symlink_to(fs, env_file(RaceEnv, frame[i].k),
                            proj_file(Proj(1), frame[i].k)) IN
        /\ At(i, "pre_symlink")
        /\ fs' = r.fs
        /\ IF r.exc # "None" THEN Raise(i, r.exc) ELSE PreNext(i)
        /\ last' = NilLast
        /\ UNCHANGED <<cwd, pc, environ>>

\* `ef.unlink()`
RacePreUnlink ==
    \E i \in Procs :
        LET r == unlink(fs, env_file(RaceEnv, frame[i].k)) IN
        /\ At(i, "pre_unlink")
        /\ fs' = r.fs
        /\ IF r.exc # "None" THEN Raise(i, r.exc) ELSE PreNext(i)
        /\ last' = NilLast
        /\ UNCHANGED <<cwd, pc, environ>>

\* the npm of an invocation writes a tracked file anew
RaceNpmWrite ==
    \E i \in Procs, k \in Kinds :
        LET ef == Real(fs, env_file(RaceEnv, k), FALSE) IN
        /\ At(i, "npm")
        /\ ef # ENOENT
        /\ Kind(fs, ef) # "dir"
        /\ Node(fs, ef) # FileNode(<<"N">>)
        /\ fs' = Put(fs, ef, FileNode(<<"N">>))
        /\ last' = NilLast
        /\ UNCHANGED <<cwd, pc, frame, environ>>

\* the npm of an invocation exits
RaceNpmExit ==
    \E i \in Procs :
        /\ At(i, "npm")
        /\ Goto(i, "post_pf", 1)
        /\ last' = NilLast
        /\ UNCHANGED <<fs, cwd, pc, environ>>

\* `if not pf.exists()` of the loop after npm
RacePostTestProj ==
    \E i \in Procs :
        /\ At(i, "post_pf")
        /\ IF ~exists(fs, proj_file(Proj(1), frame[i].k))
           THEN Goto(i, "post_ef", frame[i].k)
           ELSE PostNext(i)
        /\ last' = NilLast
        /\ UNCHANGED <<fs, cwd, pc, environ>>

\* `and ef.exists()`
RacePostTestEnv ==
    \E i \in Procs :
        /\ At(i, "post_ef")
        /\ IF exists(fs, env_file(RaceEnv, frame[i].k))
           THEN Goto(i, "rename", frame[i].k)
           ELSE PostNext(i)
        /\ last' = NilLast
        /\ UNCHANGED <<fs, cwd, pc, environ>>

\* `ef.rename(target=pf)`
RaceRename ==
    \E i \in Procs :
        LET r == rename(fs, env_file(RaceEnv, frame[i].k),
                        proj_file(Proj(1), frame[i].k)) IN
        /\ At(i, "rename")
        /\ fs' = r.fs
        /\ IF r.exc # "None" THEN Raise(i, r.exc)
           ELSE Goto(i, "post_symlink", frame[i].k)
        /\ last' = [NilLast EXCEPT !.op = "rename", !.exc = r.exc,
                                   !.proj_dir = Proj(1), !.pre = fs]
        /\ UNCHANGED <<cwd, pc, environ>>

\* `ef.symlink_to(pf)` of the loop after npm
RacePostSymlink ==
    \E i \in Procs :
        LET r == symlink_to(fs, env_file(RaceEnv, frame[i].k),
                            proj_file(Proj(1), frame[i].k)) IN
        /\ At(i, "post_symlink")
        /\ fs' = r.fs
        /\ IF r.exc # "None" THEN Raise(i, r.exc) ELSE PostNext(i)
        /\ last' = NilLast
        /\ UNCHANGED <<cwd, pc, environ>>

NextRace ==
    \/ RaceInitTest
    \/ RaceMkdir
    \/ RaceWriteMarker
    \/ RacePreTestProj
    \/ RacePreTestEnv
    \/ RacePreSymlink
    \/ RacePreUnlink
    \/ RaceNpmWrite
    \/ RaceNpmExit
    \/ RacePostTestProj
    \/ RacePostTestEnv
    \/ RaceRename
    \/ RacePostSymlink

SpecRace == InitRace /\ [][NextRace]_vars

---------------------------------------------------------------------------
(* Properties of env_rm, checked under SpecRm *)

\* C1: env_rm deletes only inside NPMENV_DIR: whatever the identifier string
\* ("", ".", "..", an absolute path, traversal segments) and whatever the
\* filesystem, every path that is gone after the call lay below the root;
\* nothing at or above the root and nothing outside it is deleted.
C1_RmOnlyBelowRoot ==
    last.op = "env_rm" =>
        \A q \in DOMAIN last.pre :
            q \notin DOMAIN fs => IsUnder(q, NPMENV_DIR)

\* the identifier string s names an existing subdirectory of the root
NamesSubdir(f, s) ==
    LET c == Real(f, JoinPath(NPMENV_DIR, PathOf(s)), TRUE) IN
    /\ c # ENOENT
    /\ Kind(f, c) = "dir"
    /\ c # NPMENV_DIR
    /\ PathParent(c) = NPMENV_DIR

\* C7: env_rm given an identifier string that names no existing subdirectory
\* of the root (a missing name, or a crafted string with traversal segments)
\* raises NpmenvException and deletes nothing.
C7_RmRefusesUnknownId ==
    (last.op = "env_rm" /\ last.arg.t = "str" /\ ~NamesSubdir(last.pre, last.arg.v))
        => (last.exc = "NpmenvException" /\ fs = last.pre)

\* C26: whenever env_rm raises, the filesystem is as it was before the call.
C26_RmFailsClean ==
    (last.op = "env_rm" /\ last.exc # "None") => fs = last.pre

---------------------------------------------------------------------------
(* Properties of the link synchronisation, checked under SpecSync.          *)
(* After a step of env_npm, last.pre is the filesystem the step started     *)
(* from and last.proj_dir the resolved project directory.                   *)

PF(k) == proj_file(last.proj_dir, k)
EF(k) == env_file(get_env_dir(last.proj_dir), k)
\* C2: before npm is started, for each tracked kind whose project copy
\* exists and whose environment copy was not a symlink (absent, or a real
\* file), the environment path is a symlink to the project's copy.
C2_LinkedBeforeNpm ==
    \A k \in Kinds :
        (last.op = "env_npm_start" /\ exists(last.pre, PF(k))
            /\ ~is_symlink(last.pre, EF(k)))
        => Lstat(fs, EF(k)) = LinkNode(PF(k))

\* C3 as stated: if, when npm has finished, the project has no copy of a
\* tracked kind and the environment holds a real file of it, then once
\* env_npm has returned the project holds that file, content unchanged, and
\* the environment path is a symlink that resolves to it.
C3_Promotion ==
    \A k \in Kinds :
        (last.op = "env_npm" /\ last.exc = "None" /\ ~exists(last.pre, PF(k))
            /\ Lstat(last.pre, EF(k)).k = "file")
        => /\ Lstat(fs, PF(k)) = Lstat(last.pre, EF(k))
           /\ Lstat(fs, EF(k)).k = "link"
           /\ Real(fs, EF(k), TRUE) = Real(fs, PF(k), FALSE)

\* the filesystem when the loop after npm reaches kind k
AtTurn(k) ==
    IF k = 1 THEN last.pre ELSE promote_one(last.pre, PF(1), EF(1)).fs

\* C3: promotion, kind by kind: if, when the loop after npm reaches a
\* tracked kind, the project has no copy of it and the environment holds a
\* real file of it, then once env_npm has returned the project holds that
\* file, content unchanged, and the environment path is a symlink that
\* resolves to it.
C3_PromotionInTurn ==
    \A k \in Kinds :
        (last.op = "env_npm" /\ last.exc = "None" /\ ~exists(AtTurn(k), PF(k))
            /\ Lstat(AtTurn(k), EF(k)).k = "file")
        => /\ Lstat(fs, PF(k)) = Lstat(AtTurn(k), EF(k))
           /\ Lstat(fs, EF(k)).k = "link"
           /\ Real(fs, EF(k), TRUE) = Real(fs, PF(k), FALSE)

C3_Witness ==
    /\ last.op = "env_npm"
    /\ last.exc = "None"
    /\ \A k \in Kinds : /\ ~exists(AtTurn(k), PF(k))
                        /\ Lstat(AtTurn(k), EF(k)) = FileNode(<<"N">>)
                        /\ Lstat(fs, PF(k)) = FileNode(<<"N">>)
                        /\ Lstat(fs, EF(k)) = LinkNode(PF(k))

\* C4: for each tracked kind on its own, a symlink the environment holds
\* for a project copy that no longer exists is removed before npm runs, and
\* the symlink of the other kind, whose project copy exists, stays as it is.
C4_StaleLinkRemoved ==
    \A k \in Kinds :
        (last.op = "env_npm_start" /\ ~exists(last.pre, PF(k))
            /\ is_symlink(last.pre, EF(k)))
        => /\ ~is_symlink(fs, EF(k))
           /\ \A j \in Kinds \ {k} :
                (exists(last.pre, PF(j)) /\ is_symlink(last.pre, EF(j)))
                => Lstat(fs, EF(j)) = Lstat(last.pre, EF(j))

\* C5: the two phases of env_npm change nothing in the project directory
\* but for a promotion: the only path that differs afterwards is a tracked
\* path where the project had no copy, which now holds the real file the
\* environment had; a real tracked file of the project is never touched.
C5_ProjectFilesKept ==
    last.op \in {"env_npm_start", "env_npm"} =>
        \A q \in DOMAIN last.pre \cup DOMAIN fs :
            (IsUnder(q, last.proj_dir) /\ Node(fs, q) # Node(last.pre, q))
            => \E k \in Kinds :
                 /\ q = PF(k)
                 /\ ~exists(last.pre, PF(k))
                 /\ Lstat(last.pre, EF(k)).k = "file"
                 /\ Node(fs, q) = Lstat(last.pre, EF(k))

C5_Witness ==
    /\ last.op = "env_npm"
    /\ \E k \in Kinds, j \in Kinds :
         /\ Lstat(last.pre, PF(k)) = FileNode(<<"P">>)
         /\ Lstat(fs, PF(k)) = FileNode(<<"P">>)
         /\ Node(fs, PF(j)) # Node(last.pre, PF(j))

\* C6: once the loop before npm has run, running it again on the filesystem
\* it left changes nothing, whatever the filesystem it started from.
C6_PrePhaseIdempotent ==
    last.op = "env_npm_start" =>
        pre_phase(fs, last.proj_dir, get_env_dir(last.proj_dir)).fs = fs

\* the two copies of kind k agree on filesystem f: both are real files, or
\* the project's copy exists and the environment's path is a symlink to it
Agree(f, k) ==
    \/ Lstat(f, PF(k)).k = "file" /\ Lstat(f, EF(k)).k = "file"
    \/ exists(f, PF(k)) /\ Lstat(f, EF(k)) = LinkNode(PF(k))

\* C22: a step of env_npm (the loop before npm, the loop after it) that
\* finds the two copies of a tracked kind in agreement leaves both paths as
\* they are.
C22_AgreedLeftAlone ==
    \A k \in Kinds :
        (last.op \in {"env_npm_start", "env_npm"} /\ Agree(last.pre, k))
        => /\ Lstat(fs, PF(k)) = Lstat(last.pre, PF(k))
           /\ Lstat(fs, EF(k)) = Lstat(last.pre, EF(k))

C22_Witness ==
    /\ last.op = "env_npm_start"
    /\ \E k \in Kinds, j \in Kinds :
         /\ Lstat(last.pre, PF(k)).k = "file" /\ Lstat(last.pre, EF(k)).k = "file"
         /\ Lstat(last.pre, PF(j)).k = "file" /\ Lstat(last.pre, EF(j)) = LinkNode(PF(j))
         /\ Lstat(fs, EF(k)).k = "file" /\ Lstat(fs, EF(j)) = LinkNode(PF(j))

---------------------------------------------------------------------------
(* Properties of repeated env_npm calls, checked under SpecTurns *)

\* C21: no step of env_npm raises, and once env_npm has returned, for each
\* tracked kind: if the project's copy exists the environment's path is a
\* symlink to it, and if it does not the environment holds neither a
\* symlink nor a real file of that kind.
C21_SyncedAfterNpm ==
    /\ last.op \in {"env_npm_start", "env_npm"} => last.exc = "None"
    /\ last.op = "env_npm" =>
         \A k \in Kinds :
            IF exists(fs, PF(k))
            THEN Lstat(fs, EF(k)) = LinkNode(PF(k))
            ELSE Lstat(fs, EF(k)).k \notin {"link", "file"}

---------------------------------------------------------------------------
(* Properties of the promotion, checked under SpecPromote *)

\* C23: when the loop after npm finds a directory at the environment's
\* path of a tracked kind and no project copy, the directory stays where
\* it is, the project gets nothing, and no symlink to a directory appears.
C23_OnlyFilesPromoted ==
    \A k \in Kinds :
        (last.op = "env_npm" /\ ~exists(last.pre, PF(k))
            /\ Lstat(last.pre, EF(k)).k = "dir")
        => /\ Lstat(fs, EF(k)).k = "dir"
           /\ Lstat(fs, PF(k)) = Lstat(last.pre, PF(k))
           /\ ~(Lstat(fs, EF(k)).k = "link" /\ Stat(fs, EF(k)).k = "dir")

---------------------------------------------------------------------------
(* Properties of env_rm, env_list and env_cleanup, checked under Spec *)

\* the environment directory a call of env_rm addresses
RmTarget ==
    IF last.arg.t = "none" THEN get_env_dir(last.pre_cwd)
    ELSE IF last.arg.t = "path" THEN get_env_dir(last.arg.v)
    ELSE JoinPath(NPMENV_DIR, PathOf(last.arg.v))

\* that directory is an environment: a directory holding a marker file
RmOnExisting ==
    /\ last.op = "env_rm"
    /\ Stat(last.pre, RmTarget).k = "dir"
    /\ Stat(last.pre, JoinPath(RmTarget, <<".project">>)).k = "file"

\* what env_rm owes for an existing environment: the recorded project path
\* is returned, the directory is gone, env_list no longer reports it, and
\* nothing outside that directory has changed
RmDone ==
    /\ last.exc = "None"
    /\ last.ret = PathOf(Stat(last.pre, JoinPath(RmTarget, <<".project">>)).v)
    /\ Stat(fs, RmTarget).k = "none"
    /\ \A e \in env_list(fs).list : e.id # PathName(RmTarget)
    /\ \A q \in DOMAIN last.pre \cup DOMAIN fs :
         (q # RmTarget /\ ~IsUnder(q, RmTarget)) => Node(fs, q) = Node(last.pre, q)

EnvsOn(f) ==
    {q \in DOMAIN f : /\ PathParent(q) = NPMENV_DIR /\ q # NPMENV_DIR
                      /\ Stat(f, JoinPath(q, <<".project">>)).k = "file"}

\* C9: env_list reports every environment on disk, with the project path its
\* marker records and the issue of that path as the disk has it now:
\* "missing" if it is not a directory; otherwise "no_config" if neither
\* package.json nor package-lock.json is a file there; otherwise None.
C9_ListClassifies ==
    (last.op = "env_list" /\ last.exc = "None") =>
        /\ {e.id : e \in last.list} = {PathName(q) : q \in EnvsOn(last.pre)}
        /\ \A e \in last.list :
             /\ e.proj = PathOf(Stat(last.pre,
                    JoinPath(NPMENV_DIR, <<e.id, ".project">>)).v)
             /\ e.issue =
                  IF Stat(last.pre, e.proj).k # "dir" THEN "missing"
                  ELSE IF /\ Stat(last.pre, JoinPath(e.proj, <<"package.json">>)).k # "file"
                          /\ Stat(last.pre, JoinPath(e.proj, <<"package-lock.json">>)).k # "file"
                       THEN "no_config"
                  ELSE "None"

C9_Witness ==
    /\ last.op = "env_list"
    /\ \E e \in last.list :
         /\ e.issue = "None"
         /\ Stat(fs, JoinPath(e.proj, <<"package.json">>)).k = "none"
         /\ Stat(fs, JoinPath(e.proj, <<"package-lock.json">>)).k = "file"
    /\ \E e \in last.list : e.issue \in {"missing", "no_config"}

\* the entries env_list gives with an issue, before the call of env_cleanup
Reported == {e \in env_list(last.pre).list : e.issue # "None"}

\* C10: env_cleanup removes exactly the environments env_list reports with
\* an issue, each once, and returns exactly those entries; everything else
\* on disk, the environments without issue among it, is as before; right
\* afterwards env_list reports only entries without issue and a second
\* env_cleanup removes nothing.
C10_CleanupExact ==
    (last.op = "env_cleanup" /\ env_list(last.pre).exc = "None") =>
        /\ last.exc = "None"
        /\ {last.removed[i] : i \in DOMAIN last.removed} = Reported
        /\ Len(last.removed) = Cardinality(Reported)
        /\ \A e \in Reported : Stat(fs, JoinPath(NPMENV_DIR, <<e.id>>)).k = "none"
        /\ \A q \in DOMAIN last.pre \cup DOMAIN fs :
             (\A e \in Reported : LET d == JoinPath(NPMENV_DIR, <<e.id>>)
                                  IN  q # d /\ ~IsUnder(q, d))
             => Node(fs, q) = Node(last.pre, q)
        /\ env_list(fs).list = env_list(last.pre).list \ Reported
        /\ \A e \in env_list(fs).list : e.issue = "None"
        /\ \A order \in Orders(env_list(fs).list) :
             /\ env_cleanup(fs, cwd, order).removed = <<>>
             /\ env_cleanup(fs, cwd, order).fs = fs

C10_Witness ==
    /\ last.op = "env_cleanup"
    /\ Len(last.removed) > 0
    /\ \E e \in env_list(last.pre).list : e.issue = "None"
    /\ \E e \in env_list(fs).list : Stat(fs, JoinPath(NPMENV_DIR, <<e.id>>)).k = "dir"

---------------------------------------------------------------------------
(* Properties of env_npm, checked under Spec *)

\* the environment directory of the project a call of env_npm resolved
ED == get_env_dir(last.proj_dir)

\* env_list, on the filesystem as it is now, has the entry of that project
Listed ==
    \E e \in env_list(fs).list :
        e.id = get_env_id(last.proj_dir) /\ e.proj = last.proj_dir

\* C12: env_npm, where the environment directory of the resolved project
\* path does not exist, creates it and writes the marker .project holding
\* exactly that path; from then on, and when env_npm has returned, env_list
\* has an entry with the project's environment id and the resolved path.
C12_EnvCreated ==
    /\ (last.op = "env_npm_start" /\ last.proj_dir # <<>> /\ ~exists(last.pre, ED))
        => /\ Stat(fs, ED).k = "dir"
           /\ Stat(fs, JoinPath(ED, <<".project">>)) = FileNode(StrOf(last.proj_dir))
           /\ Listed
    /\ (last.op = "env_npm" /\ last.exc = "None") => Listed

C12_Witness ==
    /\ last.op = "env_npm_start"
    /\ last.exc = "None"
    /\ ~exists(last.pre, ED)
    /\ \E q \in DOMAIN last.pre : PathParent(q) = NPMENV_DIR /\ q # ED
    /\ Listed

---------------------------------------------------------------------------
(* Properties of env_npm's exits, checked under SpecSync *)

\* C13: whenever env_npm has returned or raised, having failed before npm,
\* after npm exited with any code, or with npm interrupted, the process is
\* in the working directory it was in when env_npm was called.
C13_CwdRestored ==
    (pc = "done" /\ last.op \in {"env_npm_start", "env_npm"}) => cwd = last.pre_cwd

\* C14: a nonzero exit code of npm is never raised: env_npm, once back in
\* the old working directory, runs the loop after npm, raises only what that
\* loop raises and otherwise returns npm's result with that exit code; a
\* file npm created is promoted all the same.
C14_ExitCodeIsData ==
    (last.op = "env_npm" /\ last.rc # 0) =>
        /\ last.exc # "CalledProcessError"
        /\ is_dir(last.pre, last.pre_cwd) =>
             /\ last.exc = post_phase(last.pre, last.proj_dir, ED).exc
             /\ fs = post_phase(last.pre, last.proj_dir, ED).fs
             /\ \A k \in Kinds :
                  (last.exc = "None" /\ ~exists(AtTurn(k), PF(k))
                      /\ Lstat(AtTurn(k), EF(k)).k = "file")
                  => Lstat(fs, PF(k)).k = "file"

C14_Witness ==
    /\ last.op = "env_npm"
    /\ last.rc # 0
    /\ last.exc = "None"
    /\ \E k \in Kinds : /\ Lstat(last.pre, PF(k)).k = "none"
                        /\ Lstat(last.pre, EF(k)).k = "file"
                        /\ Lstat(fs, PF(k)).k = "file"
                        /\ Lstat(fs, EF(k)).k = "link"

---------------------------------------------------------------------------
(* Properties of env_run, checked under SpecRun *)

\* the environment directory a call of env_run or env_location addresses
RunTarget ==
    IF last.arg.t = "none" THEN get_env_dir(last.pre_cwd) ELSE get_env_dir(last.arg.v)

\* C15: env_run raises NpmenvException and does not run the command when
\* the environment directory is not a directory ("Env does not exist") and,
\* tested after that, when the environment has no node_modules/.bin
\* directory; in both cases the disk is as it was.
C15_RunRefuses ==
    last.op = "env_run" =>
        /\ Stat(last.pre, RunTarget).k # "dir"
            => (last.exc = NoEnv /\ ~last.ran /\ fs = last.pre)
        /\ (Stat(last.pre, RunTarget).k = "dir"
              /\ Stat(last.pre, JoinPath(RunTarget, <<"node_modules", ".bin">>)).k # "dir")
            => (last.exc = NoBin /\ ~last.ran /\ fs = last.pre)

C15_Witness ==
    /\ last.op = "env_run"
    /\ Stat(last.pre, RunTarget).k = "dir"
    /\ Stat(last.pre, JoinPath(RunTarget, <<"node_modules", ".bin">>)).k = "none"
    /\ last.exc = NoBin
    /\ "PATH" \in DOMAIN last.pre_environ

\* C16: env_run runs the command with a copy of the process
\* environment in which PATH is the .bin directory followed by every
\* original entry in order, the other variables as they were, and leaves
\* the process's own environment unchanged.
C16_PathPrepended ==
    (last.op = "env_run"
        /\ Stat(last.pre, JoinPath(RunTarget, <<"node_modules", ".bin">>)).k = "dir")
    => /\ last.ran
       /\ DOMAIN last.child = DOMAIN last.pre_environ \cup {"PATH"}
       /\ last.child["PATH"] =
            <<StrOf(JoinPath(RunTarget, <<"node_modules", ".bin">>))>>
                \o (IF "PATH" \in DOMAIN last.pre_environ
                    THEN last.pre_environ["PATH"] ELSE <<>>)
       /\ \A x \in DOMAIN last.pre_environ \ {"PATH"} :
            last.child[x] = last.pre_environ[x]
       /\ environ = last.pre_environ

\* C17: env_list, env_location and env_run leave the disk as it is: they
\* create, delete and modify no environment directory (those are made by
\* env_npm and removed by env_rm and env_cleanup); env_location returns the
\* environment's path whether or not the environment exists.
C17_ReadOnlyOps ==
    /\ last.op \in {"env_list", "env_location", "env_run"} => fs = last.pre
    /\ (last.op = "env_location" /\ Stat(last.pre, last.pre_cwd).k = "dir")
        => (last.exc = "None" /\ last.ret = RunTarget)

C17_Witness ==
    /\ last.op = "env_location"
    /\ Stat(last.pre, RunTarget).k = "none"
    /\ last.ret = RunTarget
    /\ Stat(fs, RunTarget).k = "none"
    /\ Stat(fs, NPMENV_DIR).k = "dir"

---------------------------------------------------------------------------
(* Properties of env_cleanup, checked under SpecSweep *)

C18_ListOnlyMarked ==
    (last.op = "env_list" /\ Stat(last.pre, NPMENV_DIR).k = "dir") =>
        /\ last.exc = "None"
        /\ {e.id : e \in last.list} = {PathName(q) : q \in EnvsOn(last.pre)}
        /\ Cardinality(last.list) = Cardinality(EnvsOn(last.pre))

C18_Witness ==
    /\ last.op = "env_list"
    /\ last.exc = "None"
    /\ last.list # {}
    /\ \A x \in Strays : Stat(last.pre, JoinPath(NPMENV_DIR, x.at)) = x.node
    /\ \A e \in last.list : e.id \notin {"stray.txt", "cache", "odd"}

---------------------------------------------------------------------------
(* Properties of path resolution, checked under SpecSpell *)

\* the path the argument of the last call spells, as written
Spelled ==
    IF last.arg.t = "none" THEN last.pre_cwd
    ELSE IF last.arg.t = "str" THEN PathOf(last.arg.v) ELSE last.arg.v

\* the directory the kernel reaches by that spelling from the cwd of the call
Denoted == Real(last.pre, JoinPath(last.pre_cwd, Spelled), TRUE)

\* C19: whatever the spelling of an existing project directory (argument
\* omitted, relative, absolute, through ".." or a symlink), each operation
\* works on the environment of the directory itself: env_location returns
\* its environment directory, env_npm runs npm there, env_rm removes it and
\* nothing else, env_run puts its .bin first in PATH.
C19_SpellingsAgree ==
    (/\ last.op \in {"env_location", "env_npm_start", "env_rm", "env_run"}
     /\ Stat(last.pre, last.pre_cwd).k = "dir"
     /\ Stat(last.pre, Denoted).k = "dir") =>
        LET env_dir == get_env_dir(Denoted) IN
        /\ last.op = "env_location" => last.ret = env_dir
        /\ (last.op = "env_npm_start" /\ last.exc = "None") => cwd = env_dir
        /\ (last.op = "env_rm" /\ Stat(last.pre, env_dir).k = "none")
            => (last.exc = "NpmenvException" /\ fs = last.pre)
        /\ (last.op = "env_rm" /\ Stat(last.pre, env_dir).k = "dir")
            => /\ last.exc = "None"
               /\ Stat(fs, env_dir).k = "none"
               /\ \A q \in DOMAIN last.pre :
                    (q # env_dir /\ ~IsUnder(q, env_dir)) => Node(fs, q) = Node(last.pre, q)
        /\ (last.op = "env_run" /\ last.ran)
            => last.child["PATH"][1] = StrOf(bin_dir_of(env_dir))

C19_Witness ==
    /\ last.op = "env_rm"
    /\ last.arg = PathArg(ProjLink \o <<"..", "p1">>)
    /\ last.pre_cwd = Home
    /\ Denoted = Proj(1)
    /\ last.exc = "None"
    /\ Stat(fs, get_env_dir(Proj(1))).k = "none"

---------------------------------------------------------------------------
(* More properties checked under Spec *)

\* C25: with no environment on disk, the root directory there or not,
\* env_list returns nothing, env_cleanup removes and returns nothing, and
\* neither raises.
C25_NothingToList ==
    (last.op \in {"env_list", "env_cleanup"} /\ EnvsOn(last.pre) = {}) =>
        /\ last.exc = "None"
        /\ last.list = {}
        /\ last.removed = <<>>
        /\ fs = last.pre

---------------------------------------------------------------------------
(* Properties of the marker file, checked under SpecMarker *)

\* where the marker of the last call's environment is
Marker == JoinPath(get_env_dir(last.proj_dir), <<".project">>)

\* C27: once env_npm has returned, the environment directory holds a
\* marker that records the resolved project path, the directory is named by
\* the environment id of the recorded path, and a marker that was there
\* before the call is as it was.
C27_MarkerAfterNpm ==
    (last.op = "env_npm" /\ last.exc = "None") =>
        /\ Lstat(fs, Marker) = FileNode(StrOf(last.proj_dir))
        /\ PathName(get_env_dir(last.proj_dir)) = get_env_id(PathOf(Lstat(fs, Marker).v))
        /\ Lstat(last.pre, Marker).k = "file" => Lstat(fs, Marker) = Lstat(last.pre, Marker)

---------------------------------------------------------------------------
(* Properties of two interleaved invocations, checked under SpecRace *)

\* C28: no invocation raises FileExistsError, and the rename of the loop
\* after npm never lands on a real file of the project: a tracked path of
\* the project that held a real file before a rename holds it afterwards.
C28_NoClobber ==
    /\ \A i \in Procs : frame[i].exc # "FileExistsError"
    /\ last.op = "rename" =>
         \A k \in Kinds :
            Lstat(last.pre, PF(k)).k = "file" => Lstat(fs, PF(k)) = Lstat(last.pre, PF(k))

---------------------------------------------------------------------------
(* Properties of the command line layer, checked under SpecCli *)

\* C24: no operation ends the process or raises SystemExit: the process
\* has exited only where _cli was the caller. Then its status is not 0 if
\* the operation raised an NpmenvException, and is the return code of the
\* delegated command if the operation was env_run or env_npm and returned.
C24_OnlyCliExits ==
    /\ last.exc # "SystemExit"
    /\ pc # "exited" => last.exit = NoExit
    /\ pc = "exited" =>
         /\ last.exit # NoExit
         /\ last.exc \in NpmenvExceptions => last.exit # 0
         /\ (last.op \in {"env_run", "env_npm"} /\ last.exc = "None")
                => last.exit = last.rc

C24_Witness ==
    /\ pc = "exited"
    /\ last.op = "env_run"
    /\ last.ran
    /\ last.rc = 2
    /\ last.exit = 2

=============================================================================
